---- MODULE Spec2Model ----
(***************************************************************************)
(* The opennexus bootstrap launcher                                        *)
(* (wrappers/python/opennexus/src/opennexus/__init__.py).                  *)
(*                                                                         *)
(* A launcher invocation (main) looks for an installed `opennexus` binary  *)
(* (_find_installed_binary), falls back to the managed copy in the cache   *)
(* (_ensure_managed_binary: _resolve_target, _cache_root, _download) and   *)
(* replaces itself with that binary (os.execv).  The model follows one     *)
(* invocation statement by statement; the file system, the HTTP server and *)
(* the host platform are the environment.                                  *)
(***************************************************************************)
EXTENDS Integers, Sequences, FiniteSets, TLC

VARIABLES
    platform,   \* [system, machine]: platform.system() / platform.machine(), as reported
    environ,    \* [XDG_CACHE_HOME, LOCALAPPDATA]: "" when unset
    fs,         \* the installation the locator inspects: symlinks, node kinds, x bits, PATH
    dir,        \* install_dir exists
    file,       \* the file at binary_path: [exists, xbit, chunks]
    requests,   \* every URL the HTTP server was asked for, in order
    pc,         \* per invocation: the statement it is at
    args,       \* per invocation: sys.argv[1:]
    binary,     \* per invocation: the local `binary` of main
    target,     \* per invocation: the result of _resolve_target
    response,   \* per invocation: response.status of the open HTTP response
    offset,     \* per invocation: chunks of the body already written
    err,        \* per invocation: the exception that ended it
    log,        \* per invocation: its side effects, in order
    launched    \* per invocation: what os.execv was handed, and the file as it then was

vars == <<platform, environ, fs, dir, file, requests, pc, args, binary, target,
          response, offset, err, log, launched>>

----------------------------------------------------------------------------
(* Bounds *)

MaxRuns == 2        \* launcher invocations in one behaviour
NChunks == 2        \* pieces in which write_bytes puts the body on disk

Procs == 1..MaxRuns

----------------------------------------------------------------------------
(* Strings as the platform module reports them: sequences of characters *)

UpperCase == <<"A","B","C","D","E","F","G","H","I","J","K","L","M",
               "N","O","P","Q","R","S","T","U","V","W","X","Y","Z">>
LowerCase == <<"a","b","c","d","e","f","g","h","i","j","k","l","m",
               "n","o","p","q","r","s","t","u","v","w","x","y","z">>

lower_char(c) ==
    IF \E i \in 1..Len(UpperCase) : UpperCase[i] = c
    THEN LowerCase[CHOOSE i \in 1..Len(UpperCase) : UpperCase[i] = c]
    ELSE c

\* str.lower()
lower(s) == [i \in 1..Len(s) |-> lower_char(s[i])]

s_linux   == <<"l","i","n","u","x">>
s_darwin  == <<"d","a","r","w","i","n">>
s_windows == <<"w","i","n","d","o","w","s">>
m_arm64   == <<"a","r","m","6","4">>
m_x86_64  == <<"x","8","6","_","6","4">>
m_aarch64 == <<"a","a","r","c","h","6","4">>
m_amd64   == <<"a","m","d","6","4">>

\* What platform.system() and platform.machine() report on hosts in the field
Systems ==
    { <<"L","i","n","u","x">>, <<"D","a","r","w","i","n">>,
      <<"W","i","n","d","o","w","s">>, <<"F","r","e","e","B","S","D">>,
      <<"J","a","v","a">>, s_linux, <<>> }
Machines ==
    { m_x86_64, <<"A","M","D","6","4">>, m_arm64, m_aarch64,
      <<"A","R","M","6","4">>, <<"i","6","8","6">>, m_amd64, <<>> }

None     == "None"      \* a path that is None
NoTarget == <<>>         \* targets.get(...) is None

----------------------------------------------------------------------------
(* Module constants *)

VERSION == "0.1.5"
RELEASE_BASE_URL ==
    "https://github.com/Alpha-Innovation-Labs/opennexus/releases/download/v" \o VERSION

HTTP_OK == 200

----------------------------------------------------------------------------
(* _resolve_target *)

targets ==
    { <<<<s_darwin,  m_arm64>>,   <<"aarch64-apple-darwin",      "opennexus">>>>,
      <<<<s_darwin,  m_x86_64>>,  <<"x86_64-apple-darwin",       "opennexus">>>>,
      <<<<s_linux,   m_x86_64>>,  <<"x86_64-unknown-linux-gnu",  "opennexus">>>>,
      <<<<s_linux,   m_aarch64>>, <<"aarch64-unknown-linux-gnu", "opennexus">>>>,
      <<<<s_windows, m_amd64>>,   <<"x86_64-pc-windows-msvc",    "opennexus.exe">>>> }

\* targets.get(key): the value, or None
targets_get(key) ==
    IF \E e \in targets : e[1] = key
    THEN (CHOOSE e \in targets : e[1] = key)[2]
    ELSE NoTarget

\* Mutation: the lookup key is not lower-cased
resolve_target_raw_key(plat) == targets_get(<<plat.system, plat.machine>>)

\* Mutation: an unknown host falls back to the Linux/x86_64 build
resolve_target_default(plat) ==
    IF targets_get(<<lower(plat.system), lower(plat.machine)>>) = NoTarget
    THEN <<"x86_64-unknown-linux-gnu", "opennexus">>
    ELSE targets_get(<<lower(plat.system), lower(plat.machine)>>)

\* The value returned, or NoTarget where the code raises RuntimeError
resolve_target(plat) ==
    targets_get(<<lower(plat.system), lower(plat.machine)>>)

\* os.name
os_name(plat) == IF lower(plat.system) = s_windows THEN "nt" ELSE "posix"

----------------------------------------------------------------------------
(* The installation _find_installed_binary inspects *)

home         == "/home/u"
cargo_binary == home \o "/.cargo/bin/opennexus"
script_path  == "/venv/bin/opennexus"
path_binary  == "/usr/local/bin/opennexus"
other_file   == "/opt/opennexus/opennexus"

Paths == {cargo_binary, script_path, path_binary, other_file}

NoLink  == ""
OSError == "OSError"

RECURSIVE follow(_, _, _)
follow(f, p, hops) ==
    IF f.link[p] = NoLink THEN p
    ELSE IF hops = 0 THEN OSError
    ELSE follow(f, f.link[p], hops - 1)

\* Path.resolve(): the canonical path, or OSError on a symlink loop
resolve(f, p) == follow(f, p, Cardinality(Paths))

exists(f, p)  == resolve(f, p) # OSError /\ f.kind[resolve(f, p)] # "absent"
is_file(f, p) == resolve(f, p) # OSError /\ f.kind[resolve(f, p)] = "file"
is_dir(f, p)  == resolve(f, p) # OSError /\ f.kind[resolve(f, p)] = "dir"
\* os.access(p, os.X_OK)
access_x(f, p) == exists(f, p) /\ f.xbit[resolve(f, p)]

\* Mutation: the paths are compared as written, without resolve()
same_file_unresolved(f, first, second) == first = second

same_file(f, first, second) ==
    IF resolve(f, first) = OSError \/ resolve(f, second) = OSError
    THEN FALSE
    ELSE resolve(f, first) = resolve(f, second)

\* shutil.which("opennexus"): the first PATH entry that is an executable non-directory
which(f) ==
    LET ok(i) == exists(f, f.PATH[i]) /\ access_x(f, f.PATH[i]) /\ ~is_dir(f, f.PATH[i])
    IN  IF \E i \in 1..Len(f.PATH) : ok(i)
        THEN f.PATH[CHOOSE i \in 1..Len(f.PATH) : ok(i) /\ \A j \in 1..(i-1) : ~ok(j)]
        ELSE None

\* Mutation: the command search path is consulted before ~/.cargo/bin
find_installed_binary_path_first(f) ==
    IF which(f) # None /\ ~same_file(f, which(f), script_path) THEN which(f)
    ELSE IF /\ exists(f, cargo_binary)
            /\ is_file(f, cargo_binary)
            /\ access_x(f, cargo_binary)
            /\ ~same_file(f, cargo_binary, script_path)
    THEN cargo_binary
    ELSE None

\* Mutation: only ~/.cargo/bin is consulted
find_installed_binary_cargo_only(f) ==
    IF /\ exists(f, cargo_binary)
       /\ is_file(f, cargo_binary)
       /\ access_x(f, cargo_binary)
       /\ ~same_file(f, cargo_binary, script_path)
    THEN cargo_binary
    ELSE None

find_installed_binary(f) ==
    IF /\ exists(f, cargo_binary)
       /\ is_file(f, cargo_binary)
       /\ access_x(f, cargo_binary)
       /\ ~same_file(f, cargo_binary, script_path)
    THEN cargo_binary
    ELSE LET located == which(f)
         IN  IF located = None THEN None
             ELSE IF same_file(f, located, script_path) THEN None
             ELSE located

----------------------------------------------------------------------------
(* _cache_root and the names _ensure_managed_binary derives *)

cache_root(plat, env) ==
    IF os_name(plat) = "nt"
    THEN IF env.LOCALAPPDATA # "" THEN env.LOCALAPPDATA
         ELSE home \o "/AppData/Local"
    ELSE IF env.XDG_CACHE_HOME # "" THEN env.XDG_CACHE_HOME
         ELSE home \o "/.cache"

\* str.endswith
endswith(s, suffix) ==
    /\ Len(s) >= Len(suffix)
    /\ SubSeq(s, Len(s) - Len(suffix) + 1, Len(s)) = suffix

install_dir(plat, env, tgt) ==
    cache_root(plat, env) \o "/opennexus/bin/" \o VERSION \o "/" \o tgt[1]

binary_path(plat, env, tgt) == install_dir(plat, env, tgt) \o "/" \o tgt[2]

\* Mutation: the .exe suffix is forgotten
asset_name_no_ext(tgt) == "opennexus-" \o tgt[1]

asset_name(tgt) ==
    "opennexus-" \o tgt[1] \o (IF endswith(tgt[2], ".exe") THEN ".exe" ELSE "")

asset_url(tgt) == RELEASE_BASE_URL \o "/" \o asset_name(tgt)

----------------------------------------------------------------------------
(* The file at binary_path *)

NoFile == [exists |-> FALSE, xbit |-> FALSE, chunks |-> [k \in 1..NChunks |-> FALSE]]

\* the whole response body is on disk
complete(f) == f.exists /\ \A k \in 1..NChunks : f.chunks[k]

\* os.access(binary_path, os.X_OK): on Windows every existing file passes
file_access_x(plat, f) == f.exists /\ (os_name(plat) = "nt" \/ f.xbit)

\* Mutation: the executable test is inverted
cache_hit_inverted(plat, f) == f.exists /\ ~file_access_x(plat, f)

\* binary_path.exists() and os.access(binary_path, os.X_OK)
cache_hit(plat, f) == f.exists /\ file_access_x(plat, f)

\* Mutation: the file is created with mode 0755
open_wb_mode_755(f) ==
    [exists |-> TRUE, xbit |-> TRUE, chunks |-> [k \in 1..NChunks |-> FALSE]]

\* Mutation: the file is unlinked and created anew, losing its mode
open_wb_recreate(f) ==
    [exists |-> TRUE, xbit |-> FALSE, chunks |-> [k \in 1..NChunks |-> FALSE]]

\* open(binary_path, "wb"): create without x bits, or truncate keeping the mode
open_wb(f) ==
    [exists |-> TRUE,
     xbit   |-> IF f.exists THEN f.xbit ELSE FALSE,
     chunks |-> [k \in 1..NChunks |-> FALSE]]

\* write() of piece k of the body at its offset
write_chunk(f, k) == [f EXCEPT !.chunks[k] = TRUE]

\* binary_path.chmod(0o755)
chmod_755(f) == [f EXCEPT !.xbit = TRUE]

----------------------------------------------------------------------------
(* One launcher invocation, statement by statement *)

NoErr == [kind |-> "none", detail |-> <<>>]
NotLaunched == [path |-> None, argv |-> <<>>, executable |-> FALSE, complete |-> FALSE,
                writers |-> {}]

ArgVectors == { <<>>, <<"--version">> }
Statuses   == { HTTP_OK, 204, 404 }

Finished(p) == pc[p] \in {"done", "failed"}

Goto(p, l)  == pc' = [pc EXCEPT ![p] = l]
Raise(p, kind, detail) ==
    /\ pc'  = [pc EXCEPT ![p] = "failed"]
    /\ err' = [err EXCEPT ![p] = [kind |-> kind, detail |-> detail]]
Emit(p, kind, arg) == log' = [log EXCEPT ![p] = Append(@, <<kind, arg>>)]

\* main is entered with sys.argv[1:] = a
Start(p, a) ==
    /\ pc[p] = "idle"
    /\ Goto(p, "find")
    /\ args' = [args EXCEPT ![p] = a]
    /\ UNCHANGED <<platform, environ, fs, dir, file, requests, binary, target,
                   response, offset, err, log, launched>>

\* binary = _find_installed_binary(); if binary is None: ...
FindInstalledBinary(p) ==
    /\ pc[p] = "find"
    /\ binary' = [binary EXCEPT ![p] = find_installed_binary(fs)]
    /\ Goto(p, IF find_installed_binary(fs) = None THEN "resolve" ELSE "exec")
    /\ UNCHANGED <<platform, environ, fs, dir, file, requests, args, target,
                   response, offset, err, log, launched>>

\* target_triple, binary_name = _resolve_target()
ResolveTarget(p) ==
    /\ pc[p] = "resolve"
    /\ IF resolve_target(platform) = NoTarget
       THEN /\ Raise(p, "UnsupportedPlatform",
                     <<lower(platform.system), lower(platform.machine)>>)
            /\ UNCHANGED target
       ELSE /\ target' = [target EXCEPT ![p] = resolve_target(platform)]
            /\ Goto(p, "mkdir")
            /\ UNCHANGED err
    /\ UNCHANGED <<platform, environ, fs, dir, file, requests, args, binary,
                   response, offset, log, launched>>

\* install_dir.mkdir(parents=True, exist_ok=True)
Mkdir(p) ==
    /\ pc[p] = "mkdir"
    /\ dir' = TRUE
    /\ Emit(p, "mkdir", install_dir(platform, environ, target[p]))
    /\ Goto(p, "check")
    /\ UNCHANGED <<platform, environ, fs, file, requests, args, binary, target,
                   response, offset, err, launched>>

\* mkdir raises (permissions, disk full)
MkdirFail(p) ==
    /\ pc[p] = "mkdir"
    /\ Raise(p, "FilesystemError", <<install_dir(platform, environ, target[p])>>)
    /\ UNCHANGED <<platform, environ, fs, dir, file, requests, args, binary, target,
                   response, offset, log, launched>>

\* if binary_path.exists() and os.access(binary_path, os.X_OK): return binary_path
CheckCache(p) ==
    /\ pc[p] = "check"
    /\ IF cache_hit(platform, file)
       THEN /\ binary' = [binary EXCEPT ![p] = binary_path(platform, environ, target[p])]
            /\ Goto(p, "exec")
       ELSE /\ Goto(p, "notice")
            /\ UNCHANGED binary
    /\ UNCHANGED <<platform, environ, fs, dir, file, requests, args, target,
                   response, offset, err, log, launched>>

\* print(..., file=sys.stderr)
Notice(p) ==
    /\ pc[p] = "notice"
    /\ Emit(p, "notice", VERSION \o " for " \o target[p][1])
    /\ Goto(p, "urlopen")
    /\ UNCHANGED <<platform, environ, fs, dir, file, requests, args, binary, target,
                   response, offset, err, launched>>

\* urllib.request.urlopen(url) answers with `status`
Urlopen(p, status) ==
    /\ pc[p] = "urlopen"
    /\ requests' = Append(requests, asset_url(target[p]))
    /\ Emit(p, "GET", asset_url(target[p]))
    /\ response' = [response EXCEPT ![p] = status]
    /\ Goto(p, "status")
    /\ UNCHANGED <<platform, environ, fs, dir, file, args, binary, target,
                   offset, err, launched>>

\* Mutation: the status is not looked at; every answer's body is written
CheckStatus_any_status(p) ==
    /\ pc[p] = "status"
    /\ file' = open_wb(file)
    /\ offset' = [offset EXCEPT ![p] = 0]
    /\ Goto(p, "write")
    /\ UNCHANGED <<platform, environ, fs, dir, requests, args, binary, target,
                   response, err, log, launched>>

\* if response.status != 200: raise ...; otherwise response.read() and open the file
CheckStatus(p) ==
    /\ pc[p] = "status"
    /\ IF response[p] # HTTP_OK
       THEN /\ Raise(p, "DownloadFailed", <<response[p], asset_url(target[p])>>)
            /\ UNCHANGED <<file, offset, log>>
       ELSE /\ file' = open_wb(file)
            /\ offset' = [offset EXCEPT ![p] = 0]
            /\ Goto(p, "write")
            /\ UNCHANGED <<err, log>>
    /\ UNCHANGED <<platform, environ, fs, dir, requests, args, binary, target,
                   response, launched>>

\* destination.write_bytes: the next piece of the body reaches the disk
WriteChunk(p) ==
    /\ pc[p] = "write"
    /\ offset[p] < NChunks
    /\ file' = write_chunk(file, offset[p] + 1)
    /\ offset' = [offset EXCEPT ![p] = @ + 1]
    /\ IF offset[p] + 1 = NChunks
       THEN /\ Emit(p, "write", binary_path(platform, environ, target[p]))
            /\ Goto(p, "chmod")
       ELSE UNCHANGED <<pc, log>>
    /\ UNCHANGED <<platform, environ, fs, dir, requests, args, binary, target,
                   response, err, launched>>

\* the write raises part-way (disk full)
WriteFail(p) ==
    /\ pc[p] = "write"
    /\ Raise(p, "FilesystemError", <<binary_path(platform, environ, target[p])>>)
    /\ UNCHANGED <<platform, environ, fs, dir, file, requests, args, binary, target,
                   response, offset, log, launched>>

\* if os.name != "nt": binary_path.chmod(0o755); return binary_path
Chmod(p) ==
    /\ pc[p] = "chmod"
    /\ IF os_name(platform) # "nt"
       THEN /\ file' = chmod_755(file)
            /\ Emit(p, "chmod", binary_path(platform, environ, target[p]))
       ELSE UNCHANGED <<file, log>>
    /\ binary' = [binary EXCEPT ![p] = binary_path(platform, environ, target[p])]
    /\ Goto(p, "exec")
    /\ UNCHANGED <<platform, environ, fs, dir, requests, args, target,
                   response, offset, err, launched>>

\* what os.execv finds at `path` at the moment of the call, and which other
\* invocations then have the file open for writing
exec_image(p) ==
    IF target[p] # NoTarget /\ binary[p] = binary_path(platform, environ, target[p])
    THEN [path |-> binary[p], argv |-> <<"opennexus">> \o args[p],
          executable |-> file_access_x(platform, file), complete |-> complete(file),
          writers |-> {q \in Procs \ {p} : pc[q] = "write"}]
    ELSE [path |-> binary[p], argv |-> <<"opennexus">> \o args[p],
          executable |-> access_x(fs, binary[p]), complete |-> TRUE,
          writers |-> {}]

\* os.execv(binary, args)
Execv(p) ==
    /\ pc[p] = "exec"
    /\ launched' = [launched EXCEPT ![p] = exec_image(p)]
    /\ IF exec_image(p).executable
       THEN /\ Emit(p, "exec", binary[p])
            /\ Goto(p, "done")
            /\ UNCHANGED err
       ELSE /\ Raise(p, "ExecFailure", <<binary[p]>>)
            /\ UNCHANGED log
    /\ UNCHANGED <<platform, environ, fs, dir, file, requests, args, binary, target,
                   response, offset>>

\* the process dies where it stands
Kill(p) ==
    /\ pc[p] \notin {"idle", "done", "failed"}
    /\ Raise(p, "Killed", <<>>)
    /\ UNCHANGED <<platform, environ, fs, dir, file, requests, args, binary, target,
                   response, offset, log, launched>>

----------------------------------------------------------------------------
(* Environments *)

Plat(s, m) == [system |-> s, machine |-> m]

\* every host the platform module can describe
AllPlatforms == { Plat(s, m) : s \in Systems, m \in Machines }

\* hosts of the launcher runs: two of the table, and one outside it
RunPlatforms ==
    { Plat(<<"L","i","n","u","x">>, m_x86_64),
      Plat(<<"W","i","n","d","o","w","s">>, <<"A","M","D","6","4">>),
      Plat(<<"L","i","n","u","x">>, m_arm64) }

NoEnviron == [XDG_CACHE_HOME |-> "", LOCALAPPDATA |-> ""]

Environs ==
    { NoEnviron,
      [XDG_CACHE_HOME |-> "/xdg", LOCALAPPDATA |-> "C:/Users/u/AppData/Local"] }

SearchPaths ==
    { <<>>, <<path_binary>>, <<script_path>>, <<script_path, path_binary>>,
      <<path_binary, script_path>>, <<cargo_binary, path_binary>> }

\* every installation: symlinks among the four paths (loops included), what each
\* node is, its x bit, and the order of the command search path
AllInstallations ==
    { [link |-> l, kind |-> k, xbit |-> x, PATH |-> sp] :
        l \in { m \in [Paths -> Paths \cup {NoLink}] :
                  /\ m[cargo_binary] \in {NoLink, script_path, other_file}
                  /\ m[path_binary]  \in {NoLink, script_path, other_file}
                  /\ m[script_path]  \in {NoLink, other_file, script_path}
                  /\ m[other_file]   =  NoLink },
        k \in { m \in [Paths -> {"absent", "file", "dir"}] :
                  /\ m[path_binary] # "dir"
                  /\ m[script_path] # "dir"
                  /\ m[other_file]  # "dir" },
        x \in [Paths -> BOOLEAN],
        sp \in SearchPaths }

\* an installation without symlinks where the launcher is a plain executable script
Plain(cargoKind, pathKind, sp) ==
    [link |-> [q \in Paths |-> NoLink],
     kind |-> [q \in Paths |->
                 IF q = cargo_binary THEN cargoKind
                 ELSE IF q = path_binary THEN pathKind
                 ELSE IF q = script_path THEN "file" ELSE "absent"],
     xbit |-> [q \in Paths |-> TRUE],
     PATH |-> sp]

\* installations of the launcher runs
RunInstallations ==
    { Plain("absent", "absent", <<script_path>>),
      Plain("absent", "file",   <<path_binary, script_path>>),
      Plain("file",   "file",   <<path_binary, script_path>>),
      Plain("file",   "absent", <<script_path, cargo_binary>>),
      [Plain("absent", "absent", <<path_binary>>)
          EXCEPT !.link[path_binary] = script_path] }

----------------------------------------------------------------------------
(* Specifications *)

Fresh ==
    /\ dir = FALSE
    /\ file = NoFile
    /\ requests = <<>>
    /\ args     = [p \in Procs |-> <<>>]
    /\ binary   = [p \in Procs |-> None]
    /\ target   = [p \in Procs |-> NoTarget]
    /\ response = [p \in Procs |-> 0]
    /\ offset   = [p \in Procs |-> 0]
    /\ err      = [p \in Procs |-> NoErr]
    /\ log      = [p \in Procs |-> <<>>]
    /\ launched = [p \in Procs |-> NotLaunched]

\* Sequential launcher runs on a clean cache; a run may fail or die at any step
Init ==
    /\ platform \in RunPlatforms
    /\ environ \in Environs
    /\ fs \in RunInstallations
    /\ pc = [p \in Procs |-> "idle"]
    /\ Fresh

\* run p begins once every earlier run has ended
StartNext(p) ==
    /\ \A q \in Procs : q < p => Finished(q)
    /\ \E a \in ArgVectors : Start(p, a)

UrlopenAny(p) == \E status \in Statuses : Urlopen(p, status)

Next ==
    \E p \in Procs :
        \/ StartNext(p)
        \/ FindInstalledBinary(p)
        \/ ResolveTarget(p)
        \/ Mkdir(p)
        \/ MkdirFail(p)
        \/ CheckCache(p)
        \/ Notice(p)
        \/ UrlopenAny(p)
        \/ CheckStatus(p)
        \/ WriteChunk(p)
        \/ WriteFail(p)
        \/ Chmod(p)
        \/ Execv(p)
        \/ Kill(p)

Spec == Init /\ [][Next]_vars

\* Concurrent first runs: nothing installed, a supported host, a stable asset
\* answering 200, no faults
InitRace ==
    /\ platform \in { pl \in RunPlatforms : resolve_target(pl) # NoTarget }
    /\ environ = NoEnviron
    /\ fs = Plain("absent", "absent", <<script_path>>)
    /\ pc = [p \in Procs |-> "idle"]
    /\ Fresh

\* the concurrent invocations are started alike, as `opennexus --version`
StartAny(p) == Start(p, <<"--version">>)

UrlopenStable(p) == Urlopen(p, HTTP_OK)

NextRace ==
    \E p \in Procs :
        \/ StartAny(p)
        \/ FindInstalledBinary(p)
        \/ ResolveTarget(p)
        \/ Mkdir(p)
        \/ CheckCache(p)
        \/ Notice(p)
        \/ UrlopenStable(p)
        \/ CheckStatus(p)
        \/ WriteChunk(p)
        \/ Chmod(p)
        \/ Execv(p)

SpecRace == InitRace /\ [][NextRace]_vars

\* _find_installed_binary called on every installation
InitLocator ==
    /\ platform = Plat(<<"L","i","n","u","x">>, m_x86_64)
    /\ environ = NoEnviron
    /\ fs \in AllInstallations
    /\ pc = [p \in Procs |-> IF p = 1 THEN "find" ELSE "idle"]
    /\ Fresh

NextLocator == \E p \in Procs : FindInstalledBinary(p)

SpecLocator == InitLocator /\ [][NextLocator]_vars

\* _resolve_target called on every host
InitTarget ==
    /\ platform \in AllPlatforms
    /\ environ = NoEnviron
    /\ fs = Plain("absent", "absent", <<script_path>>)
    /\ pc = [p \in Procs |-> IF p = 1 THEN "resolve" ELSE "idle"]
    /\ Fresh

NextTarget == \E p \in Procs : ResolveTarget(p)

SpecTarget == InitTarget /\ [][NextTarget]_vars

----------------------------------------------------------------------------
(* The documented behaviour the claims are stated against *)

\* the lower-cased (system, machine) pair of the host
HostKey == <<lower(platform.system), lower(platform.machine)>>

\* the five rows of the supported-platform table
DocumentedKeys ==
    { <<s_darwin, m_arm64>>, <<s_darwin, m_x86_64>>, <<s_linux, m_x86_64>>,
      <<s_linux, m_aarch64>>, <<s_windows, m_amd64>> }

DocumentedTarget(key) ==
    CASE key = <<s_darwin,  m_arm64>>   -> <<"aarch64-apple-darwin",      "opennexus">>
      [] key = <<s_darwin,  m_x86_64>>  -> <<"x86_64-apple-darwin",       "opennexus">>
      [] key = <<s_linux,   m_x86_64>>  -> <<"x86_64-unknown-linux-gnu",  "opennexus">>
      [] key = <<s_linux,   m_aarch64>> -> <<"aarch64-unknown-linux-gnu", "opennexus">>
      [] key = <<s_windows, m_amd64>>   -> <<"x86_64-pc-windows-msvc",    "opennexus.exe">>

OnWindows == HostKey[1] = s_windows

\* ~/.cargo/bin/opennexus exists, is a regular file and is executable
CargoUsable ==
    exists(fs, cargo_binary) /\ is_file(fs, cargo_binary) /\ access_x(fs, cargo_binary)

\* both paths resolve, and to the same canonical path
SameCanonical(a, b) ==
    /\ resolve(fs, a) # OSError
    /\ resolve(fs, b) # OSError
    /\ resolve(fs, a) = resolve(fs, b)

\* what BinaryLocator can discover: the cargo candidate and the search-path hit
Discoverable ==
    (IF CargoUsable THEN {cargo_binary} ELSE {})
        \cup (IF which(fs) # None THEN {which(fs)} ELSE {})

\* nothing is installed but, possibly, the launcher itself
NoneInstalled == \A d \in Discoverable : SameCanonical(d, script_path)

\* the locator of invocation 1 has returned
Located == pc[1] \in {"resolve", "exec"}

----------------------------------------------------------------------------
(* C6 *)

\* C6: _resolve_target is an exact lookup on the lower-cased (system, machine)
\* pair: each of the five documented pairs yields its documented (triple,
\* binary name), the name ending in .exe only on Windows; every other pair
\* raises UnsupportedPlatform carrying the pair, and no default is returned.
C6_TargetTableExact ==
    pc[1] # "resolve" =>
        IF HostKey \in DocumentedKeys
        THEN /\ pc[1] = "mkdir"
             /\ err[1].kind = "none"
             /\ target[1] = DocumentedTarget(HostKey)
             /\ endswith(target[1][2], ".exe") <=> OnWindows
        ELSE /\ pc[1] = "failed"
             /\ err[1].kind = "UnsupportedPlatform"
             /\ err[1].detail = HostKey
             /\ target[1] = NoTarget

\* a host reporting "Windows"/"AMD64" got the .exe target
C6_Witness ==
    /\ platform = Plat(<<"W","i","n","d","o","w","s">>, <<"A","M","D","6","4">>)
    /\ pc[1] = "mkdir"
    /\ target[1] = <<"x86_64-pc-windows-msvc", "opennexus.exe">>

----------------------------------------------------------------------------
(* C2, C9 *)

\* C2: when every binary the locator can discover (the cargo candidate, the
\* search-path hit) resolves to the canonical file of the running launcher,
\* _find_installed_binary returns None; what it returns is never the launcher.
C2_SelfExclusion ==
    Located =>
        /\ (Discoverable # {} /\ \A d \in Discoverable : SameCanonical(d, script_path))
              => binary[1] = None
        /\ binary[1] # None => ~SameCanonical(binary[1], script_path)

\* the launcher was discovered through a symlink and through PATH, and rejected
C2_Witness ==
    /\ Located
    /\ CargoUsable /\ fs.link[cargo_binary] = script_path
    /\ which(fs) = script_path
    /\ binary[1] = None

C9_WitnessUnresolved ==
    /\ Located
    /\ resolve(fs, script_path) = OSError
    /\ binary[1] = path_binary

----------------------------------------------------------------------------
(* The managed copy, as documented *)

Supported == HostKey \in DocumentedKeys

\* <cache-root>/opennexus/bin/<version>/<target-triple>/<binary-name>
DocumentedBinaryPath ==
    cache_root(platform, environ) \o "/opennexus/bin/" \o VERSION \o "/"
        \o DocumentedTarget(HostKey)[1] \o "/" \o DocumentedTarget(HostKey)[2]

\* {base-url}/opennexus-{target-triple}[.exe]
DocumentedAssetUrl ==
    RELEASE_BASE_URL \o "/opennexus-" \o DocumentedTarget(HostKey)[1]
        \o (IF OnWindows THEN ".exe" ELSE "")

\* BinaryPath exists and is executable (on Windows: exists)
Cached == file.exists /\ (OnWindows \/ file.xbit)

\* the kinds of side effect of invocation p, in order
Effects(p) == [i \in 1..Len(log[p]) |-> log[p][i][1]]

Did(p, kind) == \E i \in 1..Len(log[p]) : log[p][i][1] = kind

\* invocation p launched, or returned, the managed copy
Managed(p) == Supported /\ binary[p] = DocumentedBinaryPath

----------------------------------------------------------------------------
(* C1 *)

\* C1: a step in which an invocation leaves the cache check while BinaryPath
\* exists and is executable requests nothing from the network, leaves the
\* file (content and mode) as it is, has no side effect, and returns exactly
\* BinaryPath to main, which goes on to exec; this holds for every run.
C1_CacheHitIdempotent ==
    [][\A p \in Procs :
          (pc[p] = "check" /\ pc'[p] # "check" /\ err'[p].kind # "Killed" /\ Cached)
          => /\ requests' = requests
             /\ file' = file
             /\ log'[p] = log[p]
             /\ binary'[p] = DocumentedBinaryPath
             /\ pc'[p] = "exec"]_vars

\* a later run launched the cached copy with no effect but mkdir and exec
C1_Witness ==
    \E p \in Procs :
        /\ p > 1
        /\ pc[p] = "done"
        /\ Managed(p)
        /\ Effects(p) = <<"mkdir", "exec">>
        /\ launched[p].path = DocumentedBinaryPath

----------------------------------------------------------------------------
(* C3 *)

\* C3: once the status check has seen a non-200 answer, the invocation has
\* failed with DownloadFailed (unless it was killed first), nothing was
\* launched, and until a later run begins BinaryPath is not a cache hit; the
\* next run never returns BinaryPath without a download of its own.
C3_DownloadFailure ==
    \A p \in Procs :
        (response[p] \notin {0, HTTP_OK} /\ pc[p] # "status")
        => /\ pc[p] = "failed"
           /\ err[p].kind \in {"DownloadFailed", "Killed"}
           /\ launched[p] = NotLaunched
           /\ ~Did(p, "write") /\ ~Did(p, "chmod") /\ ~Did(p, "exec")
           /\ (\A q \in Procs : q > p => pc[q] = "idle") => ~Cached
           /\ (p + 1 \in Procs /\ binary[p + 1] # None /\ Managed(p + 1))
                 => Did(p + 1, "GET")

\* a run failed on 404 and the next one downloaded again and launched
C3_Witness ==
    \E p \in Procs :
        /\ p + 1 \in Procs
        /\ err[p].kind = "DownloadFailed"
        /\ err[p].detail[1] = 404
        /\ pc[p + 1] = "done"
        /\ Did(p + 1, "GET")

----------------------------------------------------------------------------
(* C4 *)

\* the arguments a run was invoked with, after the command name
ExpectedArgv(p) == <<"opennexus">> \o args[p]

\* C4: a run that ends in exec on a clean cache (no earlier run touched it)
\* with nothing installed has done, in this order and nothing else: mkdir,
\* progress notice, one GET of {base}/opennexus-{triple}[.exe], write, chmod
\* (not on Windows), exec; the file at the documented path is then complete
\* and executable, and it was launched with ["opennexus"] + A.
C4_CleanCacheRun ==
    \A p \in Procs :
        (/\ pc[p] = "done"
         /\ NoneInstalled
         /\ \A q \in Procs : q < p => log[q] = <<>>)
        => /\ Supported
           /\ Effects(p) = IF OnWindows
                           THEN <<"mkdir", "notice", "GET", "write", "exec">>
                           ELSE <<"mkdir", "notice", "GET", "write", "chmod", "exec">>
           /\ log[p][3] = <<"GET", DocumentedAssetUrl>>
           /\ log[p][4] = <<"write", DocumentedBinaryPath>>
           /\ log[p][Len(log[p])] = <<"exec", DocumentedBinaryPath>>
           /\ requests = <<DocumentedAssetUrl>>
           /\ launched[p].path = DocumentedBinaryPath
           /\ launched[p].argv = ExpectedArgv(p)
           /\ launched[p].complete /\ launched[p].executable
           /\ dir /\ Cached /\ complete(file)

\* the Linux/x86_64 run with ["--version"]
C4_Witness ==
    /\ HostKey = <<s_linux, m_x86_64>>
    /\ pc[1] = "done"
    /\ args[1] = <<"--version">>
    /\ NoneInstalled
    /\ requests = <<RELEASE_BASE_URL \o "/opennexus-x86_64-unknown-linux-gnu">>
    /\ launched[1].argv = <<"opennexus", "--version">>
    /\ launched[1].path =
         "/home/u/.cache/opennexus/bin/0.1.5/x86_64-unknown-linux-gnu/opennexus"

----------------------------------------------------------------------------
(* C5 *)

\* the first hit on the command search path is an executable file that is
\* not the launcher
PathHitDistinct == which(fs) # None /\ ~SameCanonical(which(fs), script_path)

\* no invocation has called the provisioner, downloaded or touched the cache
NoProvisioning ==
    /\ requests = <<>>
    /\ dir = FALSE
    /\ file = NoFile
    /\ \A p \in Procs : pc[p] \in {"idle", "find", "exec", "done", "failed"}
    /\ \A p \in Procs : ~Did(p, "mkdir") /\ ~Did(p, "GET") /\ ~Did(p, "write")

\* C5 as stated: with a distinct executable `opennexus` first on the search
\* path, no run downloads or provisions, and each run that reaches exec
\* launches that search-path binary.
C5_LaunchesPathHit ==
    PathHitDistinct =>
        /\ NoProvisioning
        /\ \A p \in Procs :
              pc[p] = "done" => /\ SameCanonical(launched[p].path, which(fs))
                                /\ launched[p].argv = ExpectedArgv(p)

\* C5 amended: with a distinct executable `opennexus` first on the search
\* path, no run downloads or provisions, and each run that reaches exec
\* launches the binary the locator prefers: ~/.cargo/bin/opennexus when that
\* is usable and not the launcher, and the search-path binary otherwise.
C5_LaunchesLocated ==
    PathHitDistinct =>
        /\ NoProvisioning
        /\ \A p \in Procs :
              pc[p] = "done" =>
                 /\ launched[p].path =
                      IF CargoUsable /\ ~SameCanonical(cargo_binary, script_path)
                      THEN cargo_binary ELSE which(fs)
                 /\ launched[p].argv = ExpectedArgv(p)
                 /\ Effects(p) = <<"exec">>

\* a run launched the search-path binary directly
C5_Witness ==
    /\ PathHitDistinct
    /\ \E p \in Procs :
          /\ pc[p] = "done"
          /\ launched[p].path = path_binary
          /\ which(fs) = path_binary

----------------------------------------------------------------------------
(* C8 *)

\* C8: on a host whose pair is not in the table, an invocation that has
\* entered the provisioner has failed with UnsupportedPlatform (or was
\* killed) with no side effect: no directory, no notice, no request, no
\* file, nothing launched.
C8_UnsupportedNoState ==
    ~Supported =>
        /\ dir = FALSE
        /\ file = NoFile
        /\ requests = <<>>
        /\ \A p \in Procs :
              (binary[p] = None /\ pc[p] \notin {"idle", "find", "resolve"})
              => /\ pc[p] = "failed"
                 /\ err[p].kind \in {"UnsupportedPlatform", "Killed"}
                 /\ log[p] = <<>>
                 /\ launched[p] = NotLaunched

\* a run failed on linux/arm64, carrying the pair
C8_Witness ==
    \E p \in Procs :
        /\ err[p].kind = "UnsupportedPlatform"
        /\ err[p].detail = <<s_linux, m_arm64>>
        /\ log[p] = <<>>
        /\ ~dir

----------------------------------------------------------------------------
(* C10 *)

\* C10: off Windows, over sequential runs that may fail or die at any step,
\* BinaryPath exists with its x bit set only when it holds the complete body
\* of a 200 response; so a run that returns BinaryPath from the cache check,
\* or reaches exec with it, never launches a partly written file.
C10_ExecutableImpliesComplete ==
    ~OnWindows =>
        /\ (file.exists /\ file.xbit) => complete(file)
        /\ file.exists => \E p \in Procs : response[p] = HTTP_OK
        /\ \A p \in Procs :
              (pc[p] \in {"exec", "done"} /\ Managed(p)) => complete(file)
        /\ \A p \in Procs :
              (launched[p] # NotLaunched /\ Managed(p)) => launched[p].complete

\* a write died part-way, and a later run completed the file and launched it
C10_Witness ==
    /\ ~OnWindows
    /\ \E p, q \in Procs :
          /\ p < q
          /\ err[p].kind \in {"FilesystemError", "Killed"}
          /\ offset[p] > 0 /\ offset[p] < NChunks
          /\ pc[q] = "done"
          /\ Managed(q)
          /\ launched[q].complete

----------------------------------------------------------------------------
(* C7 *)

\* C7 as stated: in every interleaving of concurrent first runs, each
\* invocation launches BinaryPath only while it is complete and executable,
\* and once no writer is at work BinaryPath holds the complete asset.
C7_RaceBenign ==
    /\ \A p \in Procs :
          (launched[p] # NotLaunched /\ Managed(p))
          => launched[p].complete /\ launched[p].executable
    /\ (\A p \in Procs : pc[p] # "write") => (file.exists => complete(file))

\* C7 amended: each invocation launches BinaryPath only while it is
\* executable, and while it is complete unless another invocation is at that
\* moment between opening BinaryPath for writing and the end of its write;
\* once no writer is at work BinaryPath holds the complete asset, and once
\* every invocation has ended it is complete and executable.
C7_RaceWindow ==
    /\ \A p \in Procs :
          (launched[p] # NotLaunched /\ Managed(p))
          => /\ launched[p].executable
             /\ launched[p].complete \/ launched[p].writers # {}
    /\ (\A p \in Procs : pc[p] # "write") => (file.exists => complete(file))
    /\ (\A p \in Procs : Finished(p)) => (Cached /\ complete(file))

\* an invocation launched BinaryPath while another had truncated it
C7_Witness ==
    \E p \in Procs :
        /\ pc[p] = "done"
        /\ ~launched[p].complete
        /\ Managed(p)
        /\ launched[p].writers # {}

====
